---- MODULE Spec2Model ----
(***************************************************************************)
(* Model of src/server.js: an Express relay in front of an n8n webhook.    *)
(*   POST /api/chat/start            dispatch  (lines 49-125)              *)
(*   POST /api/chat/callback         callback  (lines 127-159)             *)
(*   GET  /api/chat/result/:id       poll      (lines 162-202)             *)
(* The handlers share one Redis client.  A handler runs atomically between *)
(* two awaits (single-threaded event loop); every await of a store call or *)
(* of fetch is a point where other handlers, the webhook and the clock may *)
(* take steps.  A store call is modelled as taking effect at the moment    *)
(* the awaiting handler resumes.  A failing store call throws and leaves   *)
(* the store as it was.                                                    *)
(*                                                                         *)
(* Not modelled: the record's timestamp field (Date.now(), never read by   *)
(* any handler), CORS, static files, /health and the X-Client-Id header of *)
(* a dispatch.  requestID generation (line 51) is modelled as              *)
(* the choice of an id that no dispatch generated before and that the      *)
(* store never held a record of.                                           *)
(***************************************************************************)
EXTENDS Integers, Sequences, FiniteSets, TLC

(* ------------------------------ bounds --------------------------------- *)
NumIds == 1          \* number of distinct request ids in play
MaxPolls == 2        \* number of poll handlers that can be in flight at once
TickSeconds == 1800  \* granularity of the clock

(* ------------------------- program constants --------------------------- *)
REDIS_TTL_SECONDS == 3600

(* ------------------------------ values --------------------------------- *)
IdNames == <<"r1", "r2", "r3", "r4">>
Ids == {IdNames[n] : n \in 1..NumIds}
Undefined == "undefined"      \* a field absent from a JSON body
EmptyString == ""
NoId == "none"
Anon == "anon"                \* line 53: the client id of a request that names none

\* The keys of the store: the request ids, and the default client id, which
\* is a string the handlers hold but never use as a key
Keys == Ids \cup {Anon}

\* req.body of a dispatch: empty, or a body that brings a requestID of its own
StartBodies == {[k \in {} |-> Undefined], [requestID |-> Anon, clientId |-> "c1"]}

ClientIdInputs == {Undefined, "c1"}
TextInputs == {Undefined, "t1"}
RequestIdInputs == Ids \cup {Undefined, EmptyString}

\* req.body of a callback
CallbackBodies ==
    [requestID : RequestIdInputs, clientId : ClientIdInputs, text : TextInputs]

EmptyObj == [k \in {} |-> Undefined]
Null == [null |-> TRUE]

\* JavaScript truthiness of the values a body field can hold
Truthy(v) == v \notin {Undefined, EmptyString}

\* JSON.stringify of a flat object: properties whose value is undefined are
\* left out of the text
DropUndefined(obj) ==
    [k \in {f \in DOMAIN obj : obj[f] # Undefined} |-> obj[k]]

\* JSON.stringify of a record value (initialData / completedData)
JSONStringify(obj) ==
    [json |-> IF "data" \in DOMAIN obj
              THEN [status |-> obj.status, data |-> DropUndefined(obj.data)]
              ELSE [status |-> obj.status]]

JSONParse(str) == str.json

(* ------------------------------- store --------------------------------- *)
\* A key of the store: its string value, the EX it was set with and the
\* seconds elapsed since that set.  NoRec is a key the store does not hold.
\* src and delivered are history attached to the key: the {clientId, text} of
\* the callback body that wrote it, and whether its data was already returned
\* to a poll.
NoRec == [val |-> Null, ex |-> 0, age |-> 0, src |-> EmptyObj, delivered |-> FALSE]

\* client.set(key, value, {EX: seconds})
ClientSet(st, key, value, seconds) ==
    [st EXCEPT ![key] = [val |-> value, ex |-> seconds, age |-> 0,
                         src |-> EmptyObj, delivered |-> FALSE]]

\* client.del(key)
ClientDel(st, key) == [st EXCEPT ![key] = NoRec]

\* client.get(key): the string, or null for a key the store does not hold
ClientGet(st, key) == st[key].val

\* The store after `seconds` more seconds: keys whose EX has run out are gone
Elapse(st, seconds) ==
    [k \in DOMAIN st |->
        IF st[k] = NoRec THEN NoRec
        ELSE IF st[k].age + seconds >= st[k].ex THEN NoRec
        ELSE [st[k] EXCEPT !.age = st[k].age + seconds]]

(* ----------------------------- responses ------------------------------- *)
\* An HTTP message the server sends: a response of a handler (op), or the
\* request to the webhook (op "fetch"), with the request id it concerns, the
\* status and the JSON body.  With it, as history: req, the callback body answered
\* (for a delivery, the callback body behind the record read); via, the path
\* the handler took; ok, whether the handler's last store call succeeded;
\* prior, for a callback, what the key held when the handler reached its write.
NoPrior == [status |-> "", age |-> 0]

NoResp == [op |-> "none", id |-> NoId, status |-> 0, body |-> EmptyObj,
           req |-> EmptyObj, via |-> "", ok |-> TRUE, prior |-> NoPrior]

Resp(op, id, status, body, req, via, ok) ==
    [op |-> op, id |-> id, status |-> status, body |-> body, req |-> req,
     via |-> via, ok |-> ok, prior |-> NoPrior]

\* history: status and age of a key, as a callback finds it
PriorOf(rec) ==
    IF rec.val = Null THEN [status |-> "absent", age |-> 0]
    ELSE [status |-> JSONParse(rec.val).status, age |-> rec.age]

FetchOutcomes ==
    {[thrown |-> FALSE, status |-> s] : s \in {200, 202, 500}}
        \cup {[thrown |-> TRUE, status |-> 0]}

\* A poll handler: where it stands, the id it polls and the result it holds.
\* cb and tag are history: the callback body behind the result, and whether
\* the result is the stored callback's and not yet returned to any poll
\* ("cur"), was returned to a poll that overlapped this one ("dup"), had been
\* returned before this poll read it ("redo"), or was overwritten by a later
\* callback before any of that ("old").
IdlePoll == [pc |-> "idle", id |-> NoId, result |-> Null, cb |-> EmptyObj,
             tag |-> ""]

Polls == 1..MaxPolls

VARIABLES
    store,      \* the Redis keys: Ids -> record or NoRec
    urlSet,     \* whether process.env.N8N_WEBHOOK_URL is set
    dpc,        \* per generated id, where its dispatch handler stands
    polls,      \* the poll handlers in flight (between get and del)
    out,        \* the HTTP response sent by the latest step, or NoResp
    absent      \* history: per id, why the store holds no record for it

vars == <<store, urlSet, dpc, polls, out, absent>>

Init ==
    /\ store = [k \in Keys |-> NoRec]
    /\ urlSet \in BOOLEAN
    /\ dpc = [i \in Ids |-> "none"]
    /\ polls = [p \in Polls |-> IdlePoll]
    /\ out = NoResp
    /\ absent = [i \in Ids |-> "never"]

\* absent[] after a step of the store: why a key that was there is gone
Gone(st, st2, why) ==
    [i \in Ids |->
        IF st2[i] # NoRec THEN "present"
        ELSE IF st[i] # NoRec THEN why
        ELSE absent[i]]

(* ------------------------------ dispatch ------------------------------- *)
\* line 64
initialData == [status |-> "processing"]

\* variant: the dispatcher forgets its write
StartWriteSkipped(st, requestID) == st

\* variant: the record is keyed by the client id
StartWriteWrongKey(st, requestID) ==
    ClientSet(st, Anon, JSONStringify(initialData), REDIS_TTL_SECONDS)

\* line 67: the store after the dispatcher's write
StartWrite(st, requestID) ==
    ClientSet(st, requestID, JSONStringify(initialData), REDIS_TTL_SECONDS)

\* line 100
WebhookAccepted(r) == ~r.thrown /\ r.status \in {200, 202}

\* variant: the dispatcher forgets its cleanup
CleanupDelSkipped(st, requestID) == st

\* lines 109 and 119: the store after the dispatcher's cleanup
CleanupDel(st, requestID) == ClientDel(st, requestID)

\* lines 102-106
AcceptedBody(requestID) == [status |-> "processing", requestID |-> requestID]

\* line 53: body.clientId, else the default (the X-Client-Id header is left out)
ClientIdOf(body) ==
    IF "clientId" \in DOMAIN body /\ Truthy(body.clientId) THEN body.clientId
    ELSE Anon

\* { ...a, ...b }: the properties of both, those of b winning
Spread(a, b) ==
    [k \in DOMAIN a \cup DOMAIN b |-> IF k \in DOMAIN b THEN b[k] ELSE a[k]]

\* lines 56-61: the JSON sent to the webhook
payload(body, requestID) ==
    Spread(body, [clientId |-> ClientIdOf(body), requestID |-> requestID,
                  callbackURL |-> "/api/chat/callback"])

\* lines 49-97: generate the id, write the processing record, check the
\* webhook URL and send the request to the webhook
Start(requestID, body, storeOk) ==
    /\ dpc[requestID] = "none"
    /\ absent[requestID] = "never"
    /\ \A p \in Polls : polls[p].id # requestID
    /\ IF ~storeOk
       THEN /\ out' = Resp("start", requestID, 502, EmptyObj, EmptyObj, "set", FALSE)
            /\ dpc' = [dpc EXCEPT ![requestID] = "done"]
            /\ UNCHANGED <<store, absent>>
       ELSE /\ store' = StartWrite(store, requestID)
            /\ absent' = Gone(store, store', "never")
            /\ IF ~urlSet
               THEN /\ out' = Resp("start", requestID, 500, EmptyObj, EmptyObj, "url", TRUE)
                    /\ dpc' = [dpc EXCEPT ![requestID] = "done"]
               ELSE /\ out' = Resp("fetch", requestID, 0, payload(body, requestID),
                                   EmptyObj, "", TRUE)
                    /\ dpc' = [dpc EXCEPT ![requestID] = "fetch"]
    /\ UNCHANGED <<urlSet, polls>>

\* lines 87-107 and 116-117: the fetch settles
FetchReturn(requestID, r) ==
    /\ dpc[requestID] = "fetch"
    /\ IF r.thrown
       THEN /\ dpc' = [dpc EXCEPT ![requestID] = "del119"]
            /\ out' = NoResp
       ELSE IF WebhookAccepted(r)
       THEN /\ dpc' = [dpc EXCEPT ![requestID] = "done"]
            /\ out' = Resp("start", requestID, 202, AcceptedBody(requestID),
                           EmptyObj, "accepted", TRUE)
       ELSE /\ dpc' = [dpc EXCEPT ![requestID] = "del109"]
            /\ out' = NoResp
    /\ UNCHANGED <<store, urlSet, polls, absent>>

\* lines 109-113: cleanup after a rejection; a throw lands in the catch
CleanupRejected(requestID, storeOk) ==
    /\ dpc[requestID] = "del109"
    /\ IF storeOk
       THEN /\ store' = CleanupDel(store, requestID)
            /\ absent' = Gone(store, store', "cleaned")
            /\ dpc' = [dpc EXCEPT ![requestID] = "done"]
            /\ out' = Resp("start", requestID, 502, EmptyObj, EmptyObj, "webhook", TRUE)
       ELSE /\ dpc' = [dpc EXCEPT ![requestID] = "del119"]
            /\ out' = NoResp
            /\ UNCHANGED <<store, absent>>
    /\ UNCHANGED <<urlSet, polls>>

\* lines 116-124: cleanup inside the catch; a throw here leaves the handler's
\* promise rejected and no response is ever sent
CleanupCaught(requestID, storeOk) ==
    /\ dpc[requestID] = "del119"
    /\ IF storeOk
       THEN /\ store' = CleanupDel(store, requestID)
            /\ absent' = Gone(store, store', "cleaned")
            /\ dpc' = [dpc EXCEPT ![requestID] = "done"]
            /\ out' = Resp("start", requestID, 502, EmptyObj, EmptyObj, "webhook", TRUE)
       ELSE /\ dpc' = [dpc EXCEPT ![requestID] = "unanswered"]
            /\ out' = NoResp
            /\ UNCHANGED <<store, absent>>
    /\ UNCHANGED <<urlSet, polls>>

(* ------------------------------ callback ------------------------------- *)
\* lines 132-135
finalResult(body) == [clientId |-> body.clientId, text |-> body.text]

\* variant: the callback leaves the status as it was
completedDataStatusKept(body) == [status |-> "processing", data |-> finalResult(body)]

\* lines 139-143
completedData(body) == [status |-> "completed", data |-> finalResult(body)]

\* line 137: finalResult is an object, and an object is always truthy
CallbackValid(body) == Truthy(body.requestID) /\ TRUE

\* variant: the TTL is passed in milliseconds
CallbackWriteMillis(st, body) ==
    ClientSet(st, body.requestID, JSONStringify(completedData(body)),
              REDIS_TTL_SECONDS * 1000)

\* variant: the callback only updates a key that is there (SET ... XX)
CallbackWriteIfExists(st, body) ==
    IF st[body.requestID] = NoRec THEN st
    ELSE ClientSet(st, body.requestID, JSONStringify(completedData(body)),
                   REDIS_TTL_SECONDS)

\* variant: the callback keeps the first result (SET ... NX once completed)
CallbackWriteFirstWins(st, body) ==
    IF st[body.requestID] # NoRec
          /\ JSONParse(st[body.requestID].val).status = "completed"
    THEN st
    ELSE ClientSet(st, body.requestID, JSONStringify(completedData(body)),
                   REDIS_TTL_SECONDS)

\* variant: the callback keeps the key's remaining lifetime (SET ... KEEPTTL)
CallbackWriteKeepTTL(st, body) ==
    IF st[body.requestID] = NoRec
    THEN ClientSet(st, body.requestID, JSONStringify(completedData(body)),
                   REDIS_TTL_SECONDS)
    ELSE [st EXCEPT ![body.requestID] =
             [val |-> JSONStringify(completedData(body)),
              ex |-> st[body.requestID].ex, age |-> st[body.requestID].age,
              src |-> EmptyObj, delivered |-> FALSE]]

\* line 147: the store after the callback's write
CallbackWrite(st, body) ==
    ClientSet(st, body.requestID, JSONStringify(completedData(body)),
              REDIS_TTL_SECONDS)

\* variant: the catch block removes the key it failed to write
CallbackCaughtCleanup(st, body) == ClientDel(st, body.requestID)

\* lines 152-155: the store after the catch block, which makes no store call
CallbackCaught(st, body) == st

\* history: the key just written remembers the callback body that wrote it
Remember(st, key, body) ==
    IF st[key] = NoRec THEN st
    ELSE [st EXCEPT ![key].src = [clientId |-> body.clientId, text |-> body.text]]

\* lines 127-159
Callback(body, storeOk) ==
    /\ IF ~CallbackValid(body)
       THEN /\ out' = Resp("callback", NoId, 400, EmptyObj, body, "", TRUE)
            /\ UNCHANGED <<store, absent, polls>>
       ELSE IF storeOk
       THEN /\ store' = Remember(CallbackWrite(store, body), body.requestID, body)
            /\ absent' = Gone(store, store', absent[body.requestID])
            /\ polls' = [p \in Polls |->
                            IF polls[p].id = body.requestID /\ polls[p].tag = "cur"
                            THEN [polls[p] EXCEPT !.tag = "old"]
                            ELSE polls[p]]
            /\ out' = [Resp("callback", body.requestID, 200, EmptyObj, body, "", TRUE)
                          EXCEPT !.prior = PriorOf(store[body.requestID])]
       ELSE /\ store' = CallbackCaught(store, body)
            /\ absent' = Gone(store, store', "cleaned")
            /\ out' = [Resp("callback", body.requestID, 500, EmptyObj, body, "", FALSE)
                          EXCEPT !.prior = PriorOf(store[body.requestID])]
            /\ UNCHANGED polls
    /\ UNCHANGED <<urlSet, dpc>>

(* -------------------------------- poll --------------------------------- *)
\* lines 164-172: result is null, or the parsed record
ParseResult(resultString) ==
    IF resultString = Null THEN Null ELSE JSONParse(resultString)

\* variant: the handler returns the whole record instead of its data
PollAnswerWholeRecord(result) ==
    IF result = Null
    THEN [status |-> 404, body |-> EmptyObj]
    ELSE IF result.status = "completed"
    THEN [status |-> 200, body |-> result]
    ELSE [status |-> 200, body |-> [status |-> "processing"]]

\* lines 179-201: what the handler answers for the result it holds
PollAnswer(result) ==
    IF result = Null
    THEN [status |-> 404, body |-> EmptyObj]
    ELSE IF result.status = "completed"
    THEN [status |-> 200, body |-> result.data]
    ELSE [status |-> 200, body |-> [status |-> "processing"]]

\* line 184
NeedsDelete(result) == result # Null /\ result.status = "completed"

\* variant: the poll forgets its delete
PollDeleteSkipped(st, requestID) == st

\* line 188: the store after the poll's delete
PollDelete(st, requestID) == ClientDel(st, requestID)

\* variant: the read renews the key's TTL (GETEX)
AfterGetEx(st, requestID) ==
    IF st[requestID] = NoRec THEN st ELSE [st EXCEPT ![requestID].age = 0]

\* line 168: the store after client.get, which is a plain read
AfterGet(st, requestID) == st

\* variant: a failed delete turns the answer into an error
DeliverAnswerStrict(result, storeOk) ==
    IF storeOk THEN PollAnswer(result) ELSE [status |-> 500, body |-> EmptyObj]

\* lines 187-194: the answer after the delete; a failed delete is only logged
DeliverAnswer(result, storeOk) == PollAnswer(result)

\* the least idle poll handler (the handlers are interchangeable)
IdleSlot(p) == polls[p].pc = "idle" /\ \A q \in Polls : q < p => polls[q].pc # "idle"

\* lines 162-182 and 197-201: read the record; answer 500, 404 or processing,
\* or go on to delete a completed record
PollGet(p, requestID, storeOk) ==
    /\ IdleSlot(p)
    /\ IF ~storeOk
       THEN /\ out' = Resp("poll", requestID, 500, EmptyObj, EmptyObj, "", FALSE)
            /\ UNCHANGED <<polls, store>>
       ELSE LET result == ParseResult(ClientGet(store, requestID))
            IN  IF NeedsDelete(result)
                THEN /\ polls' = [polls EXCEPT ![p] =
                            [pc |-> "del", id |-> requestID, result |-> result,
                             cb |-> store[requestID].src,
                             tag |-> IF store[requestID].delivered
                                     THEN "redo" ELSE "cur"]]
                     /\ out' = NoResp
                     /\ store' = AfterGet(store, requestID)
                ELSE /\ out' = Resp("poll", requestID, PollAnswer(result).status,
                                    PollAnswer(result).body, EmptyObj, "", TRUE)
                     /\ store' = AfterGet(store, requestID)
                     /\ UNCHANGED polls
    /\ UNCHANGED <<urlSet, dpc, absent>>

\* history: once a poll that holds the stored callback's data has answered,
\* the key (if it is still there) and the other polls holding the same data
\* know that the data was returned once
Delivered(st, ps, p) ==
    LET i == ps[p].id
    IN  [store |-> IF ps[p].tag = "cur" /\ st[i] # NoRec
                   THEN [st EXCEPT ![i].delivered = TRUE] ELSE st,
         polls |-> [q \in Polls |->
                      IF q = p THEN IdlePoll
                      ELSE IF ps[p].tag = "cur" /\ ps[q].tag = "cur" /\ ps[q].id = i
                      THEN [ps[q] EXCEPT !.tag = "dup"]
                      ELSE ps[q]]]

\* lines 184-195: delete the key (a failure is only logged) and return the data
PollDeliver(p, storeOk) ==
    /\ polls[p].pc = "del"
    /\ LET requestID == polls[p].id
           after == IF storeOk THEN PollDelete(store, requestID) ELSE store
       IN  /\ store' = Delivered(after, polls, p).store
           /\ polls' = Delivered(after, polls, p).polls
           /\ absent' = Gone(store, store', "delivered")
           /\ out' = Resp("deliver", requestID,
                          DeliverAnswer(polls[p].result, storeOk).status,
                          DeliverAnswer(polls[p].result, storeOk).body,
                          polls[p].cb, polls[p].tag, storeOk)
    /\ UNCHANGED <<urlSet, dpc>>

(* -------------------------------- clock -------------------------------- *)
\* TickSeconds pass; Redis drops the keys whose EX has run out
Tick ==
    /\ store' = Elapse(store, TickSeconds)
    /\ absent' = Gone(store, store', "expired")
    /\ out' = NoResp
    /\ UNCHANGED <<urlSet, dpc, polls>>

Next ==
    \/ \E i \in Ids, b \in StartBodies, ok \in BOOLEAN : Start(i, b, ok)
    \/ \E i \in Ids, r \in FetchOutcomes : FetchReturn(i, r)
    \/ \E i \in Ids, ok \in BOOLEAN : CleanupRejected(i, ok)
    \/ \E i \in Ids, ok \in BOOLEAN : CleanupCaught(i, ok)
    \/ \E b \in CallbackBodies, ok \in BOOLEAN : Callback(b, ok)
    \/ \E p \in Polls, i \in Ids, ok \in BOOLEAN : PollGet(p, i, ok)
    \/ \E p \in Polls, ok \in BOOLEAN : PollDeliver(p, ok)
    \/ Tick

Spec == Init /\ [][Next]_vars

(* ------------------------------ properties ----------------------------- *)
\* What a poll whose get reads the store now answers (a completed record is
\* answered after the delete, with the same status and body)
PollNow(requestID) == PollAnswer(ParseResult(ClientGet(store, requestID)))

Processing == [status |-> 200, body |-> [status |-> "processing"]]

IsCompleted(rec) == rec # NoRec /\ JSONParse(rec.val).status = "completed"
IsProcessing(rec) == rec # NoRec /\ JSONParse(rec.val).status = "processing"

\* the JSON object a callback body's {clientId, text} amounts to
DataOf(req) == DropUndefined([clientId |-> req.clientId, text |-> req.text])

\* C1: a poll whose store calls work answers by the record it read: 404 for
\* no record, 200 {status: processing} without data for a processing record,
\* and for a completed record 200 with exactly the {clientId, text} of the
\* callback that wrote the record (the latest one stored for the id).
C1_PollAnswersByRecord ==
    /\ (out.op = "poll" /\ out.ok) =>
          /\ ~IsCompleted(store[out.id])
          /\ store[out.id] = NoRec => out.status = 404
          /\ IsProcessing(store[out.id]) =>
                /\ out.status = 200
                /\ out.body = [status |-> "processing"]
    /\ out.op = "deliver" =>
          /\ out.status = 200
          /\ out.body = DataOf(out.req)
    /\ \A p \in Polls : polls[p].pc = "del" =>
          /\ polls[p].result.status = "completed"
          /\ polls[p].result.data = DataOf(polls[p].cb)

\* C1 witness: a poll has returned the data of a callback that had no clientId
C1_Witness ==
    /\ out.op = "deliver"
    /\ out.req.clientId = Undefined
    /\ out.body = [text |-> "t1"]

\* C2 as written: when a dispatch is answered 202 the response carries the
\* request id and a poll made right then answers processing.
C2_Original ==
    (out.op = "start" /\ out.status = 202) =>
        /\ out.body.requestID = out.id
        /\ PollNow(out.id) = Processing

\* C2 amended: when a dispatch is answered 202 the response carries the
\* request id, and a poll made right then answers processing unless a callback
\* for the id was stored before the 202 or the record expired while the
\* webhook call was pending.
C2_ProcessingAfter202 ==
    (out.op = "start" /\ out.status = 202) =>
        /\ out.id \in Ids
        /\ out.body.requestID = out.id
        /\ \/ PollNow(out.id) = Processing
           \/ IsCompleted(store[out.id])
           \/ absent[out.id] \in {"delivered", "expired"}

\* C2 witness: a dispatch answered 202 while its processing record is stored
C2_Witness ==
    /\ out.op = "start"
    /\ out.status = 202
    /\ IsProcessing(store[out.id])

C4_ResultThen404 ==
    /\ (out.op = "deliver" /\ out.via = "cur") =>
          /\ out.status = 200
          /\ out.body = DataOf(out.req)
          /\ out.ok => PollNow(out.id).status = 404
    /\ (out.op = "poll" /\ out.ok) => ~IsCompleted(store[out.id])

\* C4 witness: the first poll has returned the result and deleted the record
C4_Witness ==
    /\ out.op = "deliver"
    /\ out.via = "cur"
    /\ out.ok
    /\ absent[out.id] = "delivered"

\* C5 as written: a stored callback's result is returned to at most one poll,
\* also when polls overlap: no poll returns data that a poll overlapping it
\* has already returned.
C5_SingleDelivery == ~(out.op = "deliver" /\ out.via = "dup")

\* C6 as written: a poll for an id no dispatch generated answers 404.
C6_NeverDispatched404 ==
    (out.op \in {"poll", "deliver"} /\ out.ok /\ dpc[out.id] = "none") =>
        out.status = 404

\* C7: no record outlives the TTL: a key is gone once REDIS_TTL_SECONDS have
\* passed since it was last written, whether or not it was polled, and a poll
\* for an expired key answers 404.
C7_GoneAfterTTL ==
    /\ \A i \in Ids : store[i] # NoRec => store[i].age < REDIS_TTL_SECONDS
    /\ \A i \in Ids : absent[i] = "expired" => PollNow(i).status = 404
    /\ (out.op = "poll" /\ out.ok /\ absent[out.id] = "expired") => out.status = 404

\* C7 witness: a completed record that no poll read has expired
C7_Witness ==
    /\ \E i \in Ids : absent[i] = "expired" /\ dpc[i] = "none"
    /\ \A p \in Polls : polls[p].pc = "idle"

Lacks(req) ==
    \/ req.requestID = Undefined
    \/ req.clientId = Undefined
    \/ req.text = Undefined

\* C8 as written: a callback whose body lacks requestID, clientId or text is
\* answered 400 and writes nothing; one with all three, the store working, is
\* answered 200.
C8_MissingFields400 ==
    [][out'.op = "callback" =>
          /\ Lacks(out'.req) => (out'.status = 400 /\ store' = store)
          /\ (~Lacks(out'.req) /\ out'.ok) => out'.status = 200]_vars

\* C9: a callback for an id the store holds no record of, the store working,
\* is answered 200 and creates a completed record that a poll made afterwards
\* returns.
C9_CallbackCreates ==
    [][(out'.op = "callback" /\ out'.id \in Ids /\ out'.ok
            /\ store[out'.id] = NoRec) =>
          /\ out'.status = 200
          /\ IsCompleted(store'[out'.id])
          /\ PollAnswer(ParseResult(ClientGet(store', out'.id)))
                = [status |-> 200, body |-> DataOf(out'.req)]]_vars

\* C9 witness: a callback for a never-dispatched id has created a record
C9_Witness ==
    /\ out.op = "callback"
    /\ out.status = 200
    /\ dpc[out.id] = "none"
    /\ IsCompleted(store[out.id])
    /\ store[out.id].age = 0

\* C10 as written: every dispatch whose store and webhook calls have all
\* returned gets a response, and the response is 202, 500 or 502.
C10_AlwaysAnswered ==
    /\ out.op = "start" => out.status \in {202, 500, 502}
    /\ \A i \in Ids : dpc[i] # "unanswered"

\* C11: a dispatch writes its processing record before it contacts the
\* webhook: when the request to the webhook goes out it carries the request id
\* of a processing record that was just written, and a dispatch whose write
\* failed is answered 502 and is over without the webhook being contacted.
C11_WriteBeforeWebhook ==
    /\ out.op = "fetch" =>
          /\ out.body.requestID = out.id
          /\ IsProcessing(store[out.id])
          /\ store[out.id].age = 0
          /\ dpc[out.id] = "fetch"
    /\ (out.op = "start" /\ out.via = "set") =>
          /\ out.status = 502
          /\ store[out.id] = NoRec
          /\ dpc[out.id] = "done"
    /\ \A i \in Ids : dpc[i] \in {"fetch", "del109", "del119", "unanswered"} =>
          absent[i] # "never"

\* C11 witness: the request to the webhook has gone out for a client's body
C11_Witness ==
    /\ out.op = "fetch"
    /\ out.body.clientId = "c1"
    /\ IsProcessing(store[out.id])

\* C12 as written: a completed record whose data no poll has returned leaves
\* the store only in a step of a poll that returns that data, or by expiry.
C12_RemovedByDeliveryOrTTL ==
    [][\A i \in Ids :
          (IsCompleted(store[i]) /\ ~store[i].delivered /\ store'[i] = NoRec) =>
             \/ /\ out'.op = "deliver"
                /\ out'.id = i
                /\ out'.status = 200
                /\ out'.body = JSONParse(store[i].val).data
             \/ /\ out' = NoResp
                /\ dpc' = dpc
                /\ store' = Elapse(store, TickSeconds)]_vars

\* C13: the record of an id goes processing, completed, absent: every stored
\* record is processing without data or completed with data, a processing
\* record appears only under an id the store never held, and so a completed
\* record is never followed by a processing one.
C13_StateMachine ==
    [][\A i \in Ids :
          /\ store'[i] # NoRec =>
                LET rec == JSONParse(store'[i].val)
                IN  \/ rec.status = "processing" /\ DOMAIN rec = {"status"}
                    \/ rec.status = "completed" /\ DOMAIN rec = {"status", "data"}
          /\ IsProcessing(store'[i]) =>
                \/ IsProcessing(store[i])
                \/ store[i] = NoRec /\ absent[i] = "never"
          /\ IsCompleted(store[i]) => ~IsProcessing(store'[i])]_vars

\* C13 witness: a callback has completed the processing record of a dispatch
C13_Witness ==
    /\ out.op = "callback"
    /\ out.status = 200
    /\ out.prior.status = "processing"
    /\ IsCompleted(store[out.id])
    /\ dpc[out.id] = "done"

C16_PollLeavesStore ==
    [][out'.op = "poll" => store' = store]_vars

\* C16 witness: a poll has answered processing for a record TickSeconds old
C16_Witness ==
    /\ out.op = "poll"
    /\ out.status = 200
    /\ IsProcessing(store[out.id])
    /\ store[out.id].age = TickSeconds

\* C17: a callback whose store write fails is answered 500 and leaves the
\* store as it was, so a poll made afterwards answers what it would have
\* answered before the callback.
C17_FailedCallbackNoWrite ==
    [][(out'.op = "callback" /\ ~out'.ok) =>
          /\ out'.status = 500
          /\ store' = store
          /\ PollAnswer(ParseResult(ClientGet(store', out'.id))) = PollNow(out'.id)]_vars

\* C17 witness: a callback with data has failed on a processing record, which
\* a poll still answers processing for
C17_Witness ==
    /\ out.op = "callback"
    /\ out.status = 500
    /\ out.req.text = "t1"
    /\ out.prior.status = "processing"
    /\ PollNow(out.id) = Processing

\* C18: a poll that read a completed record and whose delete fails still
\* answers 200 with the data, the key keeps its value, and (the record being
\* the one the poll read) a poll made next returns the same data, not 404.
C18_FailedDeleteStillAnswers ==
    [][(out'.op = "deliver" /\ ~out'.ok) =>
          /\ out'.status = 200
          /\ out'.body = DataOf(out'.req)
          /\ store'[out'.id].val = store[out'.id].val
          /\ (out'.via = "cur" /\ store[out'.id] # NoRec) =>
                PollAnswer(ParseResult(ClientGet(store', out'.id)))
                    = [status |-> 200, body |-> out'.body]]_vars

\* C18 witness: a poll has returned the data although its delete failed, and
\* the record is still there for the next poll
C18_Witness ==
    /\ out.op = "deliver"
    /\ ~out.ok
    /\ out.via = "cur"
    /\ IsCompleted(store[out.id])
    /\ PollNow(out.id) = [status |-> 200, body |-> out.body]

\* C19 as written: when a dispatch is answered with a status other than 202
\* the store holds no record for its request id.
C19_NoRecordUnless202 ==
    (out.op = "start" /\ out.status # 202) => store[out.id] = NoRec

\* C20: a dispatch uses one request id throughout: each of its steps leaves
\* every other key of the store alone, its write puts the record under the id,
\* the payload sent to the webhook names that id (whatever the client's body
\* says), its cleanup removes that id's key and its 202 returns that id.
C20_OneIdThroughout ==
    [][\A i \in Ids : dpc'[i] # dpc[i] =>
          /\ \A k \in Keys \ {i} : store'[k] = store[k]
          /\ out'.op \in {"fetch", "start"} => out'.id = i
          /\ out'.op = "fetch" =>
                /\ out'.body.requestID = i
                /\ store'[i] # NoRec
          /\ (out'.op = "start" /\ out'.status = 202) => out'.body.requestID = i
          /\ (out'.op = "start" /\ out'.via = "webhook") => store'[i] = NoRec]_vars

\* C20 witness: the payload of a body that brought a requestID of its own
\* names the generated id
C20_Witness ==
    /\ out.op = "fetch"
    /\ out.body.clientId = "c1"
    /\ out.body.requestID = out.id
    /\ out.id \in Ids
    /\ store[out.id] # NoRec
    /\ store[Anon] = NoRec

====
